---- MODULE Spec2Model ----
(***************************************************************************)
(* Model of the code quality analyzer (src/src/analyzer.py).               *)
(*                                                                         *)
(* A file is its source text (a sequence of character classes) together   *)
(* with what reading and parsing it yields.                                *)
(* A syntax tree is a sequence of nodes in source (pre-order) order, each  *)
(* with its node type, its nesting depth and, for a function definition,   *)
(* the length of args.args.  Python floats are modelled as exact           *)
(* rationals <<numerator, denominator>> in lowest terms.                   *)
(***************************************************************************)
EXTENDS Integers, Sequences, FiniteSets, TLC

VARIABLES
    fs,              \* the files below the analysed directory, in rglob order
    results,         \* CodeAnalyzer.results
    pc,              \* "idle", or "loop" inside analyze_directory's for loop
    python_files,    \* analyze_directory: the filtered candidate list
    idx,             \* analyze_directory: position of the for loop
    file_analyses,   \* analyze_directory: successful analyses so far
    total_loc,       \* analyze_directory: running totals
    total_functions,
    total_classes,
    total_complexity,
    calls,           \* files handed to analyze_file by the current call
    stages,          \* stages the most recent analyze_file ran
    lastop,          \* the public method that returned most recently
    result           \* the record it returned

vars == <<fs, results, pc, python_files, idx, file_analyses, total_loc,
          total_functions, total_classes, total_complexity, calls, stages,
          lastop, result>>

----------------------------------------------------------------------------
(* Bounds of the model *)

\* nodes of an enumerated syntax tree, the Module node included
MaxNodes == 4
\* files of an enumerated directory
MaxFiles == 2
\* functions of the largest nested-function file
MaxChain == 30
\* characters of a source text given to _count_lines_of_code on its own
MaxText == 5

----------------------------------------------------------------------------
(* Exact rationals standing for Python floats *)

RECURSIVE GCD(_, _)
GCD(a, b) == IF b = 0 THEN a ELSE GCD(b, a % b)

Abs(a) == IF a < 0 THEN -a ELSE a

\* n/d in lowest terms, d > 0
Rat(n, d) ==
    LET g == GCD(Abs(n), d)
    IN  <<n \div g, d \div g>>

RInt(n) == <<n, 1>>
RAdd(a, b) == Rat(a[1] * b[2] + b[1] * a[2], a[2] * b[2])
RSub(a, b) == Rat(a[1] * b[2] - b[1] * a[2], a[2] * b[2])
RMul(a, b) == Rat(a[1] * b[1], a[2] * b[2])
\* a - n for an integer n: in lowest terms when a is
RSubInt(a, n) == <<a[1] - n * a[2], a[2]>>
RDivInt(a, n) == Rat(a[1], a[2] * n)
RLess(a, b) == a[1] * b[2] < b[1] * a[2]
RMax(a, b) == IF RLess(a, b) THEN b ELSE a
RMin(a, b) == IF RLess(b, a) THEN b ELSE a

----------------------------------------------------------------------------
(* Syntax trees *)

\* node types ast.walk's consumers test for, "Doc" for an expression
\* statement holding a string constant, "Other" for every other node type
DecisionKinds == {"If", "While", "For", "ExceptHandler", "And", "Or"}
\* node types that have no children in the model
LeafKinds == {"And", "Or", "Doc"}

Node(k, d, p) == [kind |-> k, depth |-> d, params |-> p]

\* the sequence <<1, ..., n>>
Indices(n) == [k \in 1..n |-> k]

\* the parent of node i: the nearest earlier node one level up (0 for the root)
Parent(t, i) ==
    LET up == {j \in 1..(i - 1) : t[j].depth = t[i].depth - 1}
    IN  IF up = {} THEN 0 ELSE CHOOSE j \in up : \A k \in up : k <= j

\* the last node of the subtree of i: the first from i on that ends the tree
\* or is followed by a node no deeper than i
SubtreeEnd(t, i) ==
    LET ends == {j \in i..Len(t) : j = Len(t) \/ t[j + 1].depth <= t[i].depth}
    IN  CHOOSE j \in ends : \A k \in ends : j <= k

\* ast.iter_child_nodes: the children of i in source order
iter_child_nodes(t, i) ==
    LET inside == [k \in 1..(SubtreeEnd(t, i) - i) |-> i + k]
    IN  SelectSeq(inside, LAMBDA j : t[j].depth = t[i].depth + 1)

\* the concatenation of the sequences ss[lo..hi]
RECURSIVE Concat(_, _, _)
Concat(ss, lo, hi) ==
    IF lo > hi THEN << >>
    ELSE IF lo = hi THEN ss[lo]
    ELSE Concat(ss, lo, (lo + hi) \div 2) \o Concat(ss, (lo + hi) \div 2 + 1, hi)

\* as ast.walk, depth-first: a node, then the whole subtree of each child
walk_preorder(t, i) == [k \in 1..(SubtreeEnd(t, i) - i + 1) |-> i + k - 1]

\* ast.walk: a queue that starts as [node] and is read from the left, the
\* children of each node read being added on the right: node, then its
\* children, then their children, ..., each level in source order
walk(t, i) ==
    LET inside == [k \in 1..(SubtreeEnd(t, i) - i + 1) |-> i + k - 1]
        levels == {t[j].depth : j \in i..SubtreeEnd(t, i)}
        height == Cardinality(levels)
    IN  Concat([n \in 1..height |->
                   SelectSeq(inside,
                             LAMBDA j : t[j].depth = t[i].depth + n - 1)],
               1, height)

\* ast.get_docstring: the body starts with a string expression statement
get_docstring(t, i) ==
    LET body == iter_child_nodes(t, i)
    IN  body # << >> /\ t[body[1]].kind = "Doc"

----------------------------------------------------------------------------
(* Source text: a sequence of characters, each " " (whitespace), "#", "\n" *)
(* or "x" (any other character)                                            *)

\* str.split('\n'): the pieces between consecutive line breaks
split(code) ==
    LET breaks == SelectSeq(Indices(Len(code)), LAMBDA j : code[j] = "\n")
    IN  [k \in 1..(Len(breaks) + 1) |->
            SubSeq(code,
                   IF k = 1 THEN 1 ELSE breaks[k - 1] + 1,
                   IF k <= Len(breaks) THEN breaks[k] - 1 ELSE Len(code))]

\* str.strip(): without the leading and the trailing whitespace
strip(line) ==
    LET solid == {j \in 1..Len(line) : line[j] # " "}
    IN  IF solid = {} THEN << >>
        ELSE SubSeq(line,
                    CHOOSE j \in solid : \A k \in solid : j <= k,
                    CHOOSE j \in solid : \A k \in solid : k <= j)

----------------------------------------------------------------------------
(* CodeAnalyzer's private methods *)

None == << >>

\* _parse_code: ast.parse's tree, or None on a SyntaxError
parse_code(content) == IF content.parses THEN content.tree ELSE None

\* as the test of line 115, on the line as it is
IsCodeLine_unstripped(line) == line # << >> /\ line[1] # "#"

\* _count_lines_of_code
\* the line counts
IsCodeLine(line) ==
    LET stripped == strip(line)
    IN  stripped # << >> /\ stripped[1] # "#"

count_lines_of_code(code) == Len(SelectSeq(split(code), IsCodeLine))

\* the nodes of the sequence ns whose type is in kinds, in the order of ns
OfKind(t, ns, kinds) == SelectSeq(ns, LAMBDA n : t[n].kind \in kinds)

\* as _calculate_complexity, the definitions nested in node i not entered
calculate_complexity_shallow(t, i) ==
    LET nested(j) == \E k \in (i + 1)..j :
                        /\ t[k].kind \in {"FunctionDef", "ClassDef"}
                        /\ SubtreeEnd(t, k) >= j
    IN  1 + Len(SelectSeq(OfKind(t, walk(t, i), DecisionKinds),
                          LAMBDA j : ~nested(j)))

\* _calculate_complexity
calculate_complexity(t, i) == 1 + Len(OfKind(t, walk(t, i), DecisionKinds))

\* _analyze_functions
analyze_functions(t) ==
    LET defs == OfKind(t, walk(t, 1), {"FunctionDef"})
    IN  [k \in 1..Len(defs) |->
            [name |-> defs[k],
             line |-> defs[k],
             complexity |-> calculate_complexity(t, defs[k]),
             has_docstring |-> get_docstring(t, defs[k]),
             parameters |-> t[defs[k]].params]]

\* as _analyze_classes, the methods counted over the whole subtree of the class
analyze_classes_deep(t) ==
    LET defs == OfKind(t, walk(t, 1), {"ClassDef"})
    IN  [k \in 1..Len(defs) |->
            [name |-> defs[k],
             line |-> defs[k],
             methods |-> Len(OfKind(t, walk(t, defs[k]), {"FunctionDef"})),
             has_docstring |-> get_docstring(t, defs[k])]]

\* _analyze_classes
analyze_classes(t) ==
    LET defs == OfKind(t, walk(t, 1), {"ClassDef"})
    IN  [k \in 1..Len(defs) |->
            [name |-> defs[k],
             line |-> defs[k],
             methods |-> Len(OfKind(t, iter_child_nodes(t, defs[k]),
                                    {"FunctionDef"})),
             has_docstring |-> get_docstring(t, defs[k])]]

\* sum(s[lo..hi])
RECURSIVE SumSeq(_, _, _)
SumSeq(s, lo, hi) ==
    IF lo > hi THEN 0
    ELSE IF lo = hi THEN s[lo]
    ELSE SumSeq(s, lo, (lo + hi) \div 2) + SumSeq(s, (lo + hi) \div 2 + 1, hi)

\* as _calculate_average_complexity, over the functions of the module body
calculate_average_complexity_toplevel(t) ==
    LET defs == OfKind(t, iter_child_nodes(t, 1), {"FunctionDef"})
        complexities == [k \in 1..Len(defs) |-> calculate_complexity(t, defs[k])]
    IN  IF complexities # << >>
        THEN Rat(SumSeq(complexities, 1, Len(complexities)), Len(complexities))
        ELSE RInt(0)

\* _calculate_average_complexity
calculate_average_complexity(t) ==
    LET defs == OfKind(t, walk(t, 1), {"FunctionDef"})
        complexities == [k \in 1..Len(defs) |-> calculate_complexity(t, defs[k])]
    IN  IF complexities # << >>
        THEN Rat(SumSeq(complexities, 1, Len(complexities)), Len(complexities))
        ELSE RInt(0)

\* as _check_docstring_coverage, the classes left out
check_docstring_coverage_functions(t) ==
    LET defs == OfKind(t, walk(t, 1), {"FunctionDef"})
        total == Len(defs)
        with_docstrings == Len(SelectSeq(defs, LAMBDA n : get_docstring(t, n)))
    IN  IF total > 0
        THEN RMul(Rat(with_docstrings, total), RInt(100))
        ELSE RInt(0)

\* _check_docstring_coverage
check_docstring_coverage(t) ==
    LET defs == OfKind(t, walk(t, 1), {"FunctionDef", "ClassDef"})
        total == Len(defs)
        with_docstrings == Len(SelectSeq(defs, LAMBDA n : get_docstring(t, n)))
    IN  IF total > 0
        THEN RMul(Rat(with_docstrings, total), RInt(100))
        ELSE RInt(0)

\* _calculate_quality_score: the complexity penalty
ComplexityPenalty(avg_complexity) ==
    IF RLess(RInt(10), avg_complexity) THEN 30
    ELSE IF RLess(RInt(5), avg_complexity) THEN 15
    ELSE IF RLess(RInt(3), avg_complexity) THEN 5
    ELSE 0

\* _calculate_quality_score: the score after the loop over the function
\* records has seen the first n of them
RECURSIVE ParameterPenalty(_, _, _)
ParameterPenalty(score, functions, n) ==
    IF n = 0 THEN score
    ELSE IF functions[n].parameters > 5
    THEN RSubInt(ParameterPenalty(score, functions, n - 1), 2)
    ELSE ParameterPenalty(score, functions, n - 1)

\* _calculate_quality_score: the return statement
ClampScore(score) == RMax(RInt(0), RMin(RInt(100), score))

\* as _calculate_quality_score, the total returned as it is
calculate_quality_score_unclamped(analysis) ==
    LET s1 == RSub(RInt(100), RInt(ComplexityPenalty(analysis.complexity)))
        s2 == RAdd(s1, RMul(RSub(analysis.docstring_coverage, RInt(50)),
                            Rat(3, 10)))
    IN  ParameterPenalty(s2, analysis.functions, Len(analysis.functions))

\* as _calculate_quality_score, the total clamped before the loop as well
calculate_quality_score_stepwise(analysis) ==
    LET s1 == RSub(RInt(100), RInt(ComplexityPenalty(analysis.complexity)))
        s2 == RAdd(s1, RMul(RSub(analysis.docstring_coverage, RInt(50)),
                            Rat(3, 10)))
    IN  ClampScore(ParameterPenalty(ClampScore(s2), analysis.functions,
                                    Len(analysis.functions)))

\* _calculate_quality_score
calculate_quality_score(analysis) ==
    LET s0 == RInt(100)
        s1 == RSub(s0, RInt(ComplexityPenalty(analysis.complexity)))
        s2 == RAdd(s1, RMul(RSub(analysis.docstring_coverage, RInt(50)),
                            Rat(3, 10)))
        s3 == ParameterPenalty(s2, analysis.functions,
                               Len(analysis.functions))
    IN  ClampScore(s3)

----------------------------------------------------------------------------
(* CodeAnalyzer.analyze_file: the record returned and the stages run *)

ReadError == [error |-> "read failure"]
ParseError == [error |-> "Failed to parse code"]

AllStages ==
    <<"read", "parse", "count_lines_of_code", "analyze_functions",
      "analyze_classes", "calculate_average_complexity",
      "check_docstring_coverage", "calculate_quality_score">>

\* the dictionary built before the score is known
Analysis(file, tree) ==
    [file_path |-> file.path,
     lines_of_code |-> count_lines_of_code(file.content.code),
     functions |-> analyze_functions(tree),
     classes |-> analyze_classes(tree),
     complexity |-> calculate_average_complexity(tree),
     docstring_coverage |-> check_docstring_coverage(tree),
     code_quality_score |-> RInt(0)]

\* as analyze_file, the line count taken before the parse result is looked at
analyze_file_partial(file) ==
    IF ~file.content.readable
    THEN [ret |-> ReadError, ran |-> <<"read">>]
    ELSE LET tree == parse_code(file.content)
         IN  IF tree = None
             THEN [ret |-> [error |-> "Failed to parse code",
                            lines_of_code |->
                                count_lines_of_code(file.content.code)],
                   ran |-> <<"read", "parse", "count_lines_of_code">>]
             ELSE LET analysis == Analysis(file, tree)
                  IN  [ret |-> [analysis EXCEPT !.code_quality_score =
                                    calculate_quality_score(analysis)],
                       ran |-> AllStages]

analyze_file(file) ==
    IF ~file.content.readable
    THEN [ret |-> ReadError, ran |-> <<"read">>]
    ELSE LET tree == parse_code(file.content)
         IN  IF tree = None
             THEN [ret |-> ParseError, ran |-> <<"read", "parse">>]
             ELSE LET analysis == Analysis(file, tree)
                  IN  [ret |-> [analysis EXCEPT !.code_quality_score =
                                    calculate_quality_score(analysis)],
                       ran |-> AllStages]

----------------------------------------------------------------------------
(* The files the analyzer is run on *)

\* lengths of args.args an enumerated function definition takes
ParamChoices == {0, 6}

\* node types of the enumerated trees: While and For nest like If, Or like
\* And; the sample trees below hold those
EnumKinds == {"FunctionDef", "ClassDef", "Doc", "Other", "If", "ExceptHandler", "And"}

Labels ==
    {[kind |-> k, params |-> 0] : k \in EnumKinds \ {"FunctionDef"}}
    \cup {[kind |-> "FunctionDef", params |-> p] : p \in ParamChoices}

ModuleTree == <<Node("Module", 0, 0)>>

\* node types found only below a node of a type the analyzer does not test
\* for: an ExceptHandler below a Try, an And or Or below a BoolOp
BelowOther == {"ExceptHandler", "And", "Or"}

\* the depths of n nodes in source order: a node is at most one level below
\* the node before it
DepthSeqs(n) ==
    {d \in [1..n -> 0..(n - 1)] :
        /\ d[1] = 0
        /\ \A i \in 2..n : d[i] >= 1 /\ d[i] <= d[i - 1] + 1}

\* t may be a syntax tree: a node without children in the model has none, an
\* ExceptHandler, And or Or lies below a node of another type, and a string
\* statement that is not the first of a definition's body is of type "Other"
WellFormed(t) ==
    \A i \in 2..Len(t) :
        LET p == Parent(t, i)
        IN  /\ t[p].kind \notin LeafKinds
            /\ t[i].kind \in BelowOther => t[p].kind = "Other"
            /\ t[i].kind = "Doc" =>
                  /\ t[p].kind \in {"FunctionDef", "ClassDef"}
                  /\ p = i - 1

\* the tree of n nodes with depths d and labels l
Tree(n, d, l) ==
    [i \in 1..n |->
        IF i = 1 THEN Node("Module", 0, 0)
        ELSE Node(l[i].kind, d[i], l[i].params)]

\* nf function definitions of p parameters nested in one another, nd if
\* statements nested in the innermost, a statement in the innermost of these
Chain(nf, p, nd) ==
    [i \in 1..(nf + nd + 2) |->
        IF i = 1 THEN Node("Module", 0, 0)
        ELSE IF i <= nf + 1 THEN Node("FunctionDef", i - 1, p)
        ELSE IF i <= nf + nd + 1 THEN Node("If", i - 1, 0)
        ELSE Node("Other", i - 1, 0)]

ChainTrees ==
    {Chain(nf, 6, nd) : nf \in {MaxChain - 3, MaxChain}, nd \in {2, 11}}

\* a source text of the tree t: a line per statement, indented by its depth
TextOf(t) ==
    Concat([i \in 1..Len(t) |->
               IF i = 1 \/ t[i].kind \in {"And", "Or"} THEN << >>
               ELSE [k \in 1..(t[i].depth - 1) |-> " "] \o <<"x", "\n">>],
           1, Len(t))

Parsed(t) ==
    [readable |-> TRUE, parses |-> TRUE, code |-> TextOf(t), tree |-> t]

Unreadable ==
    [readable |-> FALSE, parses |-> FALSE, code |-> << >>, tree |-> None]

BadSyntax ==
    [readable |-> TRUE, parses |-> FALSE,
     code |-> <<"x", " ", "x", "\n">>, tree |-> None]

\* tests/test_analyzer.py: "def func1():\n    pass\n"
TestFile1 ==
    Parsed(ModuleTree \o <<Node("FunctionDef", 1, 0), Node("Other", 2, 0)>>)

\* tests/test_analyzer.py: "class Test:\n    def method(self):\n        pass\n"
TestFile2 ==
    Parsed(ModuleTree \o <<Node("ClassDef", 1, 0), Node("FunctionDef", 2, 1),
                           Node("Other", 3, 0)>>)

\* tests/test_analyzer.py: complex_function
ComplexTree ==
    ModuleTree \o
    <<Node("FunctionDef", 1, 1), Node("Doc", 2, 0), Node("If", 2, 0),
      Node("If", 3, 0), Node("If", 4, 0), Node("For", 5, 0),
      Node("While", 6, 0), Node("Other", 7, 0), Node("Other", 2, 0)>>

\* def f(a, b, c, d, e): return a or b
FiveParamTree ==
    ModuleTree \o
    <<Node("FunctionDef", 1, 5), Node("Other", 2, 0), Node("Other", 3, 0),
      Node("Or", 4, 0)>>

\* data/sample.py
SampleTree ==
    ModuleTree \o
    <<Node("Doc", 1, 0), Node("ClassDef", 1, 0), Node("Doc", 2, 0),
      Node("FunctionDef", 2, 2), Node("Doc", 3, 0), Node("Other", 3, 0),
      Node("FunctionDef", 2, 2), Node("Doc", 3, 0), Node("Other", 3, 0),
      Node("FunctionDef", 2, 2), Node("Doc", 3, 0), Node("Other", 3, 0),
      Node("FunctionDef", 1, 1), Node("Doc", 2, 0), Node("Other", 2, 0),
      Node("For", 2, 0), Node("Other", 3, 0), Node("Other", 2, 0),
      Node("FunctionDef", 1, 0), Node("Doc", 2, 0), Node("Other", 2, 0)>>

\* one function of complexity 3, 5 and 10: the edges of the penalty bands
BandEdgeTrees == {Chain(1, 0, nd) : nd \in {2, 4, 9}}

SampleTrees == {ComplexTree, FiveParamTree, SampleTree} \cup BandEdgeTrees

\* tests/test_analyzer.py: the file of test_lines_of_code_count
LocFile ==
    [readable |-> TRUE, parses |-> TRUE,
     code |-> <<"#", " ", "x", "\n", "#", " ", "x", "\n", "\n",
                "x", "\n", " ", "x", "\n", " ", "x", "\n", " ", "x", "\n",
                " ", "x", "\n", "\n", "#", " ", "x", "\n">>,
     tree |-> ModuleTree \o
              <<Node("FunctionDef", 1, 0), Node("Doc", 2, 0),
                Node("Other", 2, 0), Node("Other", 2, 0),
                Node("Other", 2, 0)>>]

\* what a file of an enumerated directory holds
DirContents ==
    {Unreadable, BadSyntax, TestFile1, TestFile2, Parsed(SampleTree), LocFile}

File(i, cached, content) ==
    [path |-> [name |-> i, cached |-> cached], content |-> content]

\* a directory holding one file
SingleFile(t) == <<File(1, FALSE, Parsed(t))>>

\* the directories of n files: a path may contain "__pycache__"
Directories(n) ==
    {[i \in 1..n |-> File(i, c[i], f[i])] :
        c \in [1..n -> BOOLEAN], f \in [1..n -> DirContents]}

----------------------------------------------------------------------------
(* The state machine *)

NoResult == [none |-> TRUE]

Init ==
    /\ \/ \E n \in 1..MaxNodes : \E d \in DepthSeqs(n) :
             \E l \in [2..n -> Labels] :
                /\ WellFormed(Tree(n, d, l))
                /\ fs = SingleFile(Tree(n, d, l))
       \/ \E t \in ChainTrees \cup SampleTrees : fs = SingleFile(t)
       \/ \E n \in 0..MaxFiles : fs \in Directories(n)
    /\ results = << >>
    /\ pc = "idle"
    /\ python_files = << >>
    /\ idx = 0
    /\ file_analyses = << >>
    /\ total_loc = 0
    /\ total_functions = 0
    /\ total_classes = 0
    /\ total_complexity = RInt(0)
    /\ calls = << >>
    /\ stages = << >>
    /\ lastop = "none"
    /\ result = NoResult

\* the locals of analyze_directory, gone when it returns
NoLocals ==
    /\ python_files' = << >>
    /\ idx' = 0
    /\ file_analyses' = << >>
    /\ total_loc' = 0
    /\ total_functions' = 0
    /\ total_classes' = 0
    /\ total_complexity' = RInt(0)

\* as analyze_file, the record kept in self.results and returned from there
\* when the path is analysed again
AnalyzeFile_memo(i) ==
    /\ pc = "idle"
    /\ LET r == analyze_file(fs[i])
           known == {k \in DOMAIN results : results[k].path = fs[i].path}
       IN  /\ result' = IF known = {} THEN r.ret
                         ELSE results[CHOOSE k \in known : TRUE].record
           /\ results' = IF known = {}
                          THEN Append(results,
                                      [path |-> fs[i].path, record |-> r.ret])
                          ELSE results
           /\ stages' = r.ran
    /\ calls' = <<i>>
    /\ lastop' = "analyze_file"
    /\ NoLocals
    /\ UNCHANGED <<fs, pc>>

\* CodeAnalyzer.analyze_file(path of file i), called from outside
AnalyzeFile(i) ==
    /\ pc = "idle"
    /\ LET r == analyze_file(fs[i])
       IN  /\ result' = r.ret
           /\ stages' = r.ran
    /\ calls' = <<i>>
    /\ lastop' = "analyze_file"
    /\ NoLocals
    /\ UNCHANGED <<fs, results, pc>>

\* as lines 68-69, the second line left out
Discover_unfiltered(files) == Indices(Len(files))

\* lines 68-69: rglob("*.py") without the paths containing "__pycache__"
Discover(files) ==
    SelectSeq(Indices(Len(files)), LAMBDA i : ~files[i].path.cached)

\* analyze_directory up to its for loop (lines 68-78)
DirectoryStart ==
    /\ pc = "idle"
    /\ LET found == Discover(fs)
       IN  IF found = << >>
           THEN /\ result' = [error |-> "No Python files found"]
                /\ lastop' = "analyze_directory"
                /\ pc' = "idle"
                /\ NoLocals
           ELSE /\ result' = NoResult
                /\ lastop' = "none"
                /\ pc' = "loop"
                /\ python_files' = found
                /\ idx' = 1
                /\ file_analyses' = << >>
                /\ total_loc' = 0
                /\ total_functions' = 0
                /\ total_classes' = 0
                /\ total_complexity' = RInt(0)
    /\ calls' = << >>
    /\ stages' = << >>
    /\ UNCHANGED <<fs, results>>

\* as one iteration of the loop, a failure ending the loop
DirectoryStep_break ==
    /\ pc = "loop"
    /\ idx <= Len(python_files)
    /\ LET file_path == python_files[idx]
           r == analyze_file(fs[file_path])
           analysis == r.ret
       IN  /\ calls' = Append(calls, file_path)
           /\ stages' = r.ran
           /\ IF "error" \notin DOMAIN analysis
              THEN /\ file_analyses' = Append(file_analyses, analysis)
                   /\ total_loc' = total_loc + analysis.lines_of_code
                   /\ total_functions' =
                          total_functions + Len(analysis.functions)
                   /\ total_classes' = total_classes + Len(analysis.classes)
                   /\ total_complexity' =
                          RAdd(total_complexity, analysis.complexity)
              ELSE UNCHANGED <<file_analyses, total_loc, total_functions,
                               total_classes, total_complexity>>
    /\ idx' = IF "error" \in DOMAIN analyze_file(fs[python_files[idx]]).ret
              THEN Len(python_files) + 1 ELSE idx + 1
    /\ UNCHANGED <<fs, results, pc, python_files, lastop, result>>

\* one iteration of analyze_directory's for loop (lines 80-87)
DirectoryStep ==
    /\ pc = "loop"
    /\ idx <= Len(python_files)
    /\ LET file_path == python_files[idx]
           r == analyze_file(fs[file_path])
           analysis == r.ret
       IN  /\ calls' = Append(calls, file_path)
           /\ stages' = r.ran
           /\ IF "error" \notin DOMAIN analysis
              THEN /\ file_analyses' = Append(file_analyses, analysis)
                   /\ total_loc' = total_loc + analysis.lines_of_code
                   /\ total_functions' =
                          total_functions + Len(analysis.functions)
                   /\ total_classes' = total_classes + Len(analysis.classes)
                   /\ total_complexity' =
                          RAdd(total_complexity, analysis.complexity)
              ELSE UNCHANGED <<file_analyses, total_loc, total_functions,
                               total_classes, total_complexity>>
    /\ idx' = idx + 1
    /\ UNCHANGED <<fs, results, pc, python_files, lastop, result>>

\* sum(a["code_quality_score"] for a in analyses[lo..hi])
RECURSIVE SumScores(_, _, _)
SumScores(analyses, lo, hi) ==
    IF lo > hi THEN RInt(0)
    ELSE IF lo = hi THEN analyses[lo].code_quality_score
    ELSE RAdd(SumScores(analyses, lo, (lo + hi) \div 2),
              SumScores(analyses, (lo + hi) \div 2 + 1, hi))

\* as lines 89-100, the means taken over the files discovered
Summary_discovered(analyses, loc, functions, classes, complexity) ==
    [directory |-> "directory",
     total_files |-> Len(analyses),
     total_lines_of_code |-> loc,
     total_functions |-> functions,
     total_classes |-> classes,
     average_complexity |->
        IF analyses # << >> THEN RDivInt(complexity, Len(python_files))
        ELSE RInt(0),
     files |-> analyses,
     overall_quality_score |->
        IF analyses # << >> THEN RDivInt(SumScores(analyses, 1, Len(analyses)), Len(python_files))
        ELSE RInt(0)]

\* the record analyze_directory returns (lines 89-100)
Summary(analyses, loc, functions, classes, complexity) ==
    [directory |-> "directory",
     total_files |-> Len(analyses),
     total_lines_of_code |-> loc,
     total_functions |-> functions,
     total_classes |-> classes,
     average_complexity |->
        IF analyses # << >> THEN RDivInt(complexity, Len(analyses))
        ELSE RInt(0),
     files |-> analyses,
     overall_quality_score |->
        IF analyses # << >> THEN RDivInt(SumScores(analyses, 1, Len(analyses)), Len(analyses))
        ELSE RInt(0)]

\* analyze_directory after its for loop (lines 89-100)
DirectoryFinish ==
    /\ pc = "loop"
    /\ idx > Len(python_files)
    /\ result' = Summary(file_analyses, total_loc, total_functions,
                         total_classes, total_complexity)
    /\ lastop' = "analyze_directory"
    /\ pc' = "idle"
    /\ NoLocals
    /\ UNCHANGED <<fs, results, calls, stages>>

Next ==
    \/ \E i \in 1..Len(fs) : AnalyzeFile(i)
    \/ DirectoryStart
    \/ DirectoryStep
    \/ DirectoryFinish

Spec == Init /\ [][Next]_vars

----------------------------------------------------------------------------
(* _count_lines_of_code on its own, given any text *)

\* a character is a blank, the comment marker, the line break or any other
Chars == {" ", "#", "\n", "x"}

Texts == UNION {[1..n -> Chars] : n \in 0..MaxText}

\* a file that holds the text, nothing parsed from it
TextFile(code) ==
    <<File(1, FALSE,
           [readable |-> TRUE, parses |-> FALSE, code |-> code, tree |-> None])>>

\* a CodeAnalyzer just constructed, nothing called yet
Constructed ==
    /\ results = << >>
    /\ pc = "idle"
    /\ python_files = << >>
    /\ idx = 0
    /\ file_analyses = << >>
    /\ total_loc = 0
    /\ total_functions = 0
    /\ total_classes = 0
    /\ total_complexity = RInt(0)
    /\ calls = << >>
    /\ stages = << >>
    /\ lastop = "none"
    /\ result = NoResult

InitLoc ==
    /\ \E code \in Texts : fs = TextFile(code)
    /\ Constructed

\* self._count_lines_of_code(code)
CountLines ==
    /\ pc = "idle"
    /\ result' = [lines_of_code |-> count_lines_of_code(fs[1].content.code)]
    /\ lastop' = "count_lines_of_code"
    /\ UNCHANGED <<fs, results, pc, python_files, idx, file_analyses,
                   total_loc, total_functions, total_classes,
                   total_complexity, calls, stages>>

NextLoc == CountLines

SpecLoc == InitLoc /\ [][NextLoc]_vars

----------------------------------------------------------------------------
(* main.py: one run of the command line on a fresh CodeAnalyzer *)

\* sum(a["complexity"] for a in analyses[lo..hi])
RECURSIVE SumComplexities(_, _, _)
SumComplexities(analyses, lo, hi) ==
    IF lo > hi THEN RInt(0)
    ELSE IF lo = hi THEN analyses[lo].complexity
    ELSE RAdd(SumComplexities(analyses, lo, (lo + hi) \div 2),
              SumComplexities(analyses, (lo + hi) \div 2 + 1, hi))

\* lines 74-100 of analyze_directory: the loop over the results rs of the
\* analyze_file calls, and the record returned
Folded(analyses) ==
    Summary(analyses,
            SumSeq([k \in DOMAIN analyses |-> analyses[k].lines_of_code],
                   1, Len(analyses)),
            SumSeq([k \in DOMAIN analyses |-> Len(analyses[k].functions)],
                   1, Len(analyses)),
            SumSeq([k \in DOMAIN analyses |-> Len(analyses[k].classes)],
                   1, Len(analyses)),
            SumComplexities(analyses, 1, Len(analyses)))

\* the results without an error key, in the order of rs
Successes(rs) ==
    LET good == SelectSeq(rs, LAMBDA r : "error" \notin DOMAIN r.ret)
    IN  [k \in DOMAIN good |-> good[k].ret]

AnalysedAll(found, rs) ==
    [ret |-> Folded(Successes(rs)), calls |-> found, ran |-> rs[Len(rs)].ran]

\* analyze_directory from its call to its return: what it returns, the files
\* it calls analyze_file with, the stages of the last of the calls
analyze_directory(files) ==
    IF Discover(files) = << >>
    THEN [ret |-> [error |-> "No Python files found"],
          calls |-> << >>, ran |-> << >>]
    ELSE AnalysedAll(Discover(files),
                     [k \in DOMAIN Discover(files) |->
                         analyze_file(files[Discover(files)[k]])])

\* what the command line can name: a path that does not exist, a file whose
\* suffix is not .py, a .py file of the directory, the directory
Targets ==
    {[kind |-> "missing", index |-> 0], [kind |-> "other_file", index |-> 0],
     [kind |-> "directory", index |-> 0]}
    \cup {[kind |-> "py_file", index |-> i] : i \in DOMAIN fs}

Formats == {"text", "json"}

\* ReportGenerator.generate_text_report
generate_text_report(analysis) ==
    IF "error" \in DOMAIN analysis
    THEN [format |-> "text", layout |-> "error", of |-> analysis]
    ELSE IF "directory" \in DOMAIN analysis
    THEN [format |-> "text", layout |-> "directory", of |-> analysis]
    ELSE [format |-> "text", layout |-> "file", of |-> analysis]

\* ReportGenerator.generate_json_report
generate_json_report(analysis) ==
    [format |-> "json", layout |-> "analysis", of |-> analysis]

\* what main leaves behind when it returns before the analysis
Refused(target, format, output) ==
    [target |-> target, format |-> format, output |-> output,
     analysis |-> NoResult, reports |-> << >>, saved |-> << >>,
     stdout |-> << >>, exit_code |-> 1, calls |-> << >>, ran |-> << >>]

\* lines 59-66: the analysis of the target, a .py file or a directory
Analyse(files, target) ==
    IF target.kind = "py_file"
    THEN [ret |-> analyze_file(files[target.index]).ret,
          calls |-> <<target.index>>,
          ran |-> analyze_file(files[target.index]).ran]
    ELSE analyze_directory(files)

\* lines 75-86: the report generated, saved or printed, and return 0
Reported(r, report, target, format, output) ==
    [target |-> target, format |-> format, output |-> output,
     analysis |-> r.ret, reports |-> <<report>>,
     saved |-> IF output THEN <<report>> ELSE << >>,
     stdout |-> IF output THEN << >> ELSE <<report>>,
     exit_code |-> 0, calls |-> r.calls, ran |-> r.ran]

\* as lines 69-86, the error of the analysis left to the report
AfterAnalysis_unchecked(r, target, format, output) ==
    Reported(r,
             IF format = "json" THEN generate_json_report(r.ret)
             ELSE generate_text_report(r.ret),
             target, format, output)

\* lines 69-86: r is what the analysis returned
AfterAnalysis(r, target, format, output) ==
    IF "error" \in DOMAIN r.ret
    THEN [Refused(target, format, output)
             EXCEPT !.analysis = r.ret, !.calls = r.calls, !.ran = r.ran]
    ELSE Reported(r,
                  IF format = "json" THEN generate_json_report(r.ret)
                  ELSE generate_text_report(r.ret),
                  target, format, output)

\* main, lines 49-86: output tells whether --output names a file
main(files, target, format, output) ==
    IF target.kind = "missing" THEN Refused(target, format, output)
    ELSE IF target.kind = "other_file" THEN Refused(target, format, output)
    ELSE AfterAnalysis(Analyse(files, target), target, format, output)

\* what a file of a directory given to main holds
MainContents == {Unreadable, BadSyntax, TestFile1, TestFile2}

InitMain ==
    /\ \E n \in 0..MaxFiles :
          \E c \in [1..n -> BOOLEAN] : \E f \in [1..n -> MainContents] :
             fs = [i \in 1..n |-> File(i, c[i], f[i])]
    /\ Constructed

\* main returns: what it leaves behind
MainReturns(outcome) ==
    /\ result' = [target |-> outcome.target,
                  format |-> outcome.format,
                  output |-> outcome.output,
                  analysis |-> outcome.analysis,
                  reports |-> outcome.reports,
                  saved |-> outcome.saved,
                  stdout |-> outcome.stdout,
                  exit_code |-> outcome.exit_code]
    /\ calls' = outcome.calls
    /\ stages' = outcome.ran

\* sys.exit(main()): the process runs main once
Main(target, format, output) ==
    /\ pc = "idle"
    /\ lastop = "none"
    /\ MainReturns(main(fs, target, format, output))
    /\ lastop' = "main"
    /\ NoLocals
    /\ UNCHANGED <<fs, results, pc>>

NextMain ==
    \E target \in Targets : \E format \in Formats : \E output \in BOOLEAN :
        Main(target, format, output)

SpecMain == InitMain /\ [][NextMain]_vars

----------------------------------------------------------------------------
(* What the claims speak of *)

FileFields ==
    {"file_path", "lines_of_code", "functions", "classes", "complexity",
     "docstring_coverage", "code_quality_score"}

SummaryFields ==
    {"directory", "total_files", "total_lines_of_code", "total_functions",
     "total_classes", "average_complexity", "files", "overall_quality_score"}

IsError(r) == "error" \in DOMAIN r

FileReturned == lastop = "analyze_file"
DirectoryReturned == lastop = "analyze_directory"

\* every successful analyze_file result the state holds
Analyses ==
    (IF FileReturned /\ ~IsError(result) THEN {result} ELSE {})
    \cup {file_analyses[k] : k \in DOMAIN file_analyses}
    \cup (IF DirectoryReturned /\ ~IsError(result)
          THEN {result.files[k] : k \in DOMAIN result.files} ELSE {})

\* the file an analysis is of, and its tree
FileOf(a) == fs[a.file_path.name]
TreeOf(a) == FileOf(a).content.tree

Fails(file) == ~file.content.readable \/ ~file.content.parses

\* the files of the directory whose path does not contain "__pycache__"
Candidates == {i \in DOMAIN fs : ~fs[i].path.cached}

----------------------------------------------------------------------------
(* C1: analyze_directory, for a directory in which a candidate file is     *)
(* discovered and every discovered file fails analysis, returns an error   *)
(* record and never a summary with total_files = 0.                        *)

C1_AllFailedIsError ==
    (/\ DirectoryReturned
     /\ Candidates # {}
     /\ \A i \in Candidates : Fails(fs[i]))
    => /\ IsError(result)
       /\ DOMAIN result \cap SummaryFields = {}

(* C2: analyze_directory, when discovery yields no candidate file (an      *)
(* empty directory, or only __pycache__ paths), returns a record with an   *)
(* error cause and none of the summary fields, without calling             *)
(* analyze_file.                                                           *)

C2_NoCandidatesIsError ==
    (DirectoryReturned /\ Candidates = {})
    => /\ IsError(result)
       /\ DOMAIN result \cap SummaryFields = {}
       /\ calls = << >>

C2_Witness ==
    /\ DirectoryReturned
    /\ Candidates = {}
    /\ fs # << >>
    /\ DOMAIN result = {"error"}

----------------------------------------------------------------------------
(* C3: for every successful analyze_file result, whatever the average      *)
(* complexity, the coverage and the number of functions of more than 5     *)
(* parameters, code_quality_score lies in [0, 100].                        *)

C3_ScoreInRange ==
    \A a \in Analyses :
        /\ a.code_quality_score[2] > 0
        /\ 0 <= a.code_quality_score[1]
        /\ a.code_quality_score[1] <= 100 * a.code_quality_score[2]

\* the functions of more than 5 parameters of an analysis
Offending(a) == {k \in DOMAIN a.functions : a.functions[k].parameters > 5}

\* 10 * c times the total of the claim's formula before the clamp, c being
\* the denominator of the coverage
BandOf(a) ==
    IF a.complexity[1] > 10 * a.complexity[2] THEN 30
    ELSE IF a.complexity[1] > 5 * a.complexity[2] THEN 15
    ELSE IF a.complexity[1] > 3 * a.complexity[2] THEN 5
    ELSE 0

TotalTimes(a) ==
    10 * a.docstring_coverage[2]
       * (100 - BandOf(a) - 2 * Cardinality(Offending(a)))
    + 3 * (a.docstring_coverage[1] - 50 * a.docstring_coverage[2])

\* a file whose total is below 0
C3_Witness ==
    /\ FileReturned
    /\ ~IsError(result)
    /\ TotalTimes(result) < 0
    /\ result.code_quality_score = RInt(0)

----------------------------------------------------------------------------
(* C4: _calculate_quality_score equals                                     *)
(* clamp[0,100](100 - band + (coverage - 50) * 0.3 - 2 * k), band being 30 *)
(* (average complexity > 10), 15 (> 5), 5 (> 3) or 0 (otherwise, so 3, 5   *)
(* and 10 fall in the lower band), k the number of function records of     *)
(* more than 5 parameters, and the clamp applied once, to the final total. *)

C4_ScoreFormula ==
    \A a \in Analyses :
        LET scale == 10 * a.docstring_coverage[2]
            total == TotalTimes(a)
            score == a.code_quality_score
        IN  IF total < 0 THEN score[1] = 0
            ELSE IF total > 100 * scale THEN score[1] = 100 * score[2]
            ELSE score[1] * scale = total * score[2]

\* a total above 100 before the loop over the functions, which lowers it
C4_Witness ==
    /\ FileReturned
    /\ ~IsError(result)
    /\ Offending(result) # {}
    /\ TotalTimes(result) + 20 * result.docstring_coverage[2]
                               * Cardinality(Offending(result))
          > 1000 * result.docstring_coverage[2]

----------------------------------------------------------------------------
(* C5: for every function definition node, _calculate_complexity is 1 plus *)
(* the number of nodes of its whole subtree that are an if, a while, a     *)
(* for, an exception handler, an "and" or an "or", those inside nested     *)
(* function and class definitions counted too, none weighted by depth;     *)
(* three nested ifs around a for and a while give 6.                       *)

\* node j is node i or lies below it
InSubtree(t, i, j) ==
    /\ i <= j
    /\ \A k \in (i + 1)..j : t[k].depth > t[i].depth

DecisionsBelow(t, i) ==
    {j \in DOMAIN t : InSubtree(t, i, j) /\ t[j].kind \in DecisionKinds}

C5_ComplexityOfSubtree ==
    \A a \in Analyses :
        LET t == TreeOf(a)
        IN  /\ \A j \in DOMAIN t :
                  t[j].kind = "FunctionDef"
                  => \E k \in DOMAIN a.functions :
                        /\ a.functions[k].name = j
                        /\ a.functions[k].complexity =
                               1 + Cardinality(DecisionsBelow(t, j))
            /\ t = ComplexTree => a.functions[1].complexity = 6

\* a function holding a nested function that holds a decision node
C5_Witness ==
    /\ FileReturned
    /\ ~IsError(result)
    /\ \E f, g \in DOMAIN result.functions :
          /\ result.functions[f].name < result.functions[g].name
          /\ InSubtree(TreeOf(result), result.functions[f].name,
                       result.functions[g].name)
          /\ result.functions[g].complexity > 1
          /\ result.functions[f].complexity > 1

----------------------------------------------------------------------------
(* C6: in every successful analyze_file result every function record has   *)
(* complexity >= 1, the complexity field is the arithmetic mean of the     *)
(* complexity values of exactly the records of the functions list, and it  *)
(* is 0 if and only if the functions list is empty.                        *)

C6_MeanOfRecords ==
    \A a \in Analyses :
        LET n == Len(a.functions)
            cs == [k \in 1..n |-> a.functions[k].complexity]
        IN  /\ \A k \in 1..n : cs[k] >= 1
            /\ a.complexity[2] > 0
            /\ a.complexity[1] * n = SumSeq(cs, 1, n) * a.complexity[2]
            /\ a.complexity[1] = 0 <=> n = 0

\* functions of different complexity, one of them not in the module body
C6_Witness ==
    /\ FileReturned
    /\ ~IsError(result)
    /\ result.complexity[2] > 1
    /\ \E k \in DOMAIN result.functions :
          TreeOf(result)[result.functions[k].name].depth > 1

----------------------------------------------------------------------------
(* C7: in every successful analyze_file result docstring_coverage is       *)
(* 100 * (function and class records with has_docstring) / (function       *)
(* records + class records), 0 when there is neither a function nor a      *)
(* class, and within [0, 100].                                             *)

Documented(records) == {k \in DOMAIN records : records[k].has_docstring}

C7_DocstringCoverage ==
    \A a \in Analyses :
        LET n == Len(a.functions) + Len(a.classes)
            documented == Cardinality(Documented(a.functions))
                          + Cardinality(Documented(a.classes))
            coverage == a.docstring_coverage
        IN  /\ coverage[2] > 0
            /\ coverage[1] * n = 100 * documented * coverage[2]
            /\ n = 0 => coverage[1] = 0
            /\ 0 <= coverage[1]
            /\ coverage[1] <= 100 * coverage[2]

\* functions and classes, some documented and some not
C7_Witness ==
    /\ FileReturned
    /\ ~IsError(result)
    /\ result.functions # << >>
    /\ result.classes # << >>
    /\ Documented(result.classes) # {}
    /\ 0 < result.docstring_coverage[1]
    /\ result.docstring_coverage[1] < 100 * result.docstring_coverage[2]

----------------------------------------------------------------------------
(* C8: in every summary analyze_directory returns, total_files is the      *)
(* length of files, total_lines_of_code, total_functions and total_classes *)
(* are the sums over files of lines_of_code, of the number of function     *)
(* records and of the number of class records, and average_complexity and  *)
(* overall_quality_score are the unweighted means over files of complexity *)
(* and code_quality_score.                                                 *)

\* sum of the rationals s[lo..hi]
RECURSIVE RatSum(_, _, _)
RatSum(s, lo, hi) ==
    IF lo > hi THEN <<0, 1>>
    ELSE LET rest == RatSum(s, lo + 1, hi)
             num == s[lo][1] * rest[2] + rest[1] * s[lo][2]
             den == s[lo][2] * rest[2]
         IN  <<num \div GCD(Abs(num), den), den \div GCD(Abs(num), den)>>

\* the rational m is the mean of the rationals of s, s not empty
IsMean(m, s) ==
    LET total == RatSum(s, 1, Len(s))
    IN  m[1] * total[2] * Len(s) = total[1] * m[2]

C8_SummaryTotals ==
    (DirectoryReturned /\ ~IsError(result))
    => LET files == result.files
           n == Len(files)
       IN  /\ result.total_files = n
           /\ result.total_lines_of_code =
                  SumSeq([k \in 1..n |-> files[k].lines_of_code], 1, n)
           /\ result.total_functions =
                  SumSeq([k \in 1..n |-> Len(files[k].functions)], 1, n)
           /\ result.total_classes =
                  SumSeq([k \in 1..n |-> Len(files[k].classes)], 1, n)
           /\ IsMean(result.average_complexity,
                     [k \in 1..n |-> files[k].complexity])
           /\ IsMean(result.overall_quality_score,
                     [k \in 1..n |-> files[k].code_quality_score])

\* two files that differ in size, functions, complexity and score
C8_Witness ==
    /\ DirectoryReturned
    /\ ~IsError(result)
    /\ Len(result.files) = 2
    /\ result.files[1].lines_of_code # result.files[2].lines_of_code
    /\ Len(result.files[1].functions) # Len(result.files[2].functions)
    /\ result.files[1].complexity # result.files[2].complexity
    /\ result.files[1].code_quality_score # result.files[2].code_quality_score

----------------------------------------------------------------------------
(* C9: analyze_directory calls analyze_file exactly once per discovered    *)
(* file, in discovery order and without retry; a file whose analysis fails *)
(* is left out, and neither stops the files after it from being processed  *)
(* nor changes the running totals; the files returned are exactly the      *)
(* successful analyses, in processing order.                               *)

\* the candidate files in the order rglob yields them
CandidateSeq ==
    SelectSeq([i \in 1..Len(fs) |-> i], LAMBDA i : i \in Candidates)

\* the analyses of the files of seq that do not fail, in the order of seq
SuccessesOf(seq) ==
    LET good == SelectSeq(seq, LAMBDA i : ~Fails(fs[i]))
    IN  [k \in 1..Len(good) |-> analyze_file(fs[good[k]]).ret]

C9_OncePerFileInOrder ==
    /\ pc = "loop"
       => /\ python_files = CandidateSeq
          /\ idx \in 1..(Len(python_files) + 1)
          /\ calls = SubSeq(python_files, 1, idx - 1)
          /\ file_analyses = SuccessesOf(calls)
          /\ LET n == Len(file_analyses)
             IN  /\ total_loc =
                        SumSeq([k \in 1..n |-> file_analyses[k].lines_of_code],
                               1, n)
                 /\ total_functions =
                        SumSeq([k \in 1..n |-> Len(file_analyses[k].functions)],
                               1, n)
                 /\ total_classes =
                        SumSeq([k \in 1..n |-> Len(file_analyses[k].classes)],
                               1, n)
                 /\ total_complexity =
                        RatSum([k \in 1..n |-> file_analyses[k].complexity],
                               1, n)
    /\ (DirectoryReturned /\ ~IsError(result))
       => /\ calls = CandidateSeq
          /\ result.files = SuccessesOf(calls)

\* a summary of a directory whose first file fails and whose second does not
C9_Witness ==
    /\ DirectoryReturned
    /\ ~IsError(result)
    /\ Len(calls) = 2
    /\ Fails(fs[calls[1]])
    /\ ~Fails(fs[calls[2]])
    /\ Len(result.files) = 1
    /\ result.files[1].file_path = fs[calls[2]].path

----------------------------------------------------------------------------
(* C10: analyze_file returns either a record holding only an error cause   *)
(* (read failure, parse failure) or a record with every field of a file    *)
(* analysis and no error key, never a mixture; on a read failure the       *)
(* parser is not invoked, on a parse failure none of the extraction,       *)
(* complexity and scoring stages is.                                       *)

\* what the stages log holds
Ran == {stages[k] : k \in DOMAIN stages}

LaterStages ==
    {"count_lines_of_code", "analyze_functions", "analyze_classes",
     "calculate_average_complexity", "check_docstring_coverage",
     "calculate_quality_score"}

C10_ErrorOrFullRecord ==
    /\ FileReturned
       => LET file == fs[calls[Len(calls)]]
          IN  /\ DOMAIN result = {"error"} \/ DOMAIN result = FileFields
              /\ IsError(result) <=> Fails(file)
    /\ \A a \in Analyses : DOMAIN a = FileFields
    /\ calls # << >>
       => LET file == fs[calls[Len(calls)]]
          IN  /\ ~file.content.readable => Ran = {"read"}
              /\ (file.content.readable /\ ~file.content.parses)
                 => Ran = {"read", "parse"}
              /\ ~Fails(file) => Ran = {"read", "parse"} \cup LaterStages

\* a parse failure
C10_Witness ==
    /\ FileReturned
    /\ fs[calls[1]].content.readable
    /\ ~fs[calls[1]].content.parses
    /\ DOMAIN result = {"error"}
    /\ Ran = {"read", "parse"}

----------------------------------------------------------------------------
(* C11: for every class definition, at any nesting depth, there is exactly *)
(* one class record, and its methods value is the number of function       *)
(* definitions that are direct children of the class: functions nested in  *)
(* its methods and methods of the classes nested in it are not counted.    *)

\* the function definitions whose parent is node i
DirectFunctions(t, i) ==
    {j \in DOMAIN t : /\ t[j].kind = "FunctionDef"
                      /\ j > i
                      /\ t[j].depth = t[i].depth + 1
                      /\ InSubtree(t, i, j)}

C11_MethodsAreDirectChildren ==
    \A a \in Analyses :
        LET t == TreeOf(a)
        IN  /\ \A j \in DOMAIN t :
                  t[j].kind = "ClassDef"
                  => /\ Cardinality({k \in DOMAIN a.classes :
                                        a.classes[k].name = j}) = 1
                     /\ \A k \in DOMAIN a.classes :
                           a.classes[k].name = j
                           => a.classes[k].methods =
                                  Cardinality(DirectFunctions(t, j))
            /\ \A k \in DOMAIN a.classes : t[a.classes[k].name].kind = "ClassDef"

\* a class below the module body, and a class holding a function definition
\* that is not its direct child
C11_Witness ==
    /\ FileReturned
    /\ ~IsError(result)
    /\ \E k \in DOMAIN result.classes :
          LET t == TreeOf(result)
              c == result.classes[k].name
          IN  \E j \in DOMAIN t :
                 /\ t[j].kind = "FunctionDef"
                 /\ InSubtree(t, c, j)
                 /\ t[j].depth > t[c].depth + 1

----------------------------------------------------------------------------
(* C12: _count_lines_of_code returns the number of physical lines of the   *)
(* text that, once the leading and trailing whitespace is trimmed, are not *)
(* empty and do not start with '#'; blank, whitespace-only and             *)
(* comment-only lines are never counted, and any other line is, the lines  *)
(* of a docstring included.                                                *)

\* no line break at or between the positions p and q, p <= q
SameLine(code, p, q) == \A k \in p..q : code[k] # "\n"

\* position p holds the first character of its line that is not a blank
FirstSolid(code, p) ==
    /\ code[p] \notin {" ", "\n"}
    /\ \A q \in 1..(p - 1) : SameLine(code, q, p) => code[q] = " "

\* one position per line that counts
CountedLines(code) ==
    {p \in DOMAIN code : FirstSolid(code, p) /\ code[p] # "#"}

C12_LinesOfCode ==
    lastop = "count_lines_of_code"
    => result.lines_of_code = Cardinality(CountedLines(fs[1].content.code))

\* an indented comment line, a line of code, and a '#' after code
C12_Witness ==
    /\ lastop = "count_lines_of_code"
    /\ LET code == fs[1].content.code
       IN  /\ \E p \in DOMAIN code :
                 p > 1 /\ code[p] = "#" /\ code[p - 1] = " "
                 /\ FirstSolid(code, p)
           /\ \E p \in DOMAIN code :
                 p > 1 /\ code[p] = "#" /\ ~FirstSolid(code, p)
                 /\ SameLine(code, p - 1, p)
           /\ result.lines_of_code >= 1

----------------------------------------------------------------------------
(* C13: across any sequence of analyze_file and analyze_directory calls on *)
(* one CodeAnalyzer the results map is left unchanged (it stays empty),    *)
(* and the record returned for a file depends only on its path and         *)
(* content: the record a directory run holds for a file and the record of  *)
(* a later call of analyze_file on that file are identical, and no two     *)
(* records held at once for one path differ.                               *)

\* the record returned by the step, when the step is a call of analyze_file
\* that follows a directory run, is the record the run held for the file
SameRecordAfterDirectory ==
    (/\ DirectoryReturned
     /\ ~IsError(result)
     /\ lastop' = "analyze_file")
    => \A k \in DOMAIN result.files :
          result.files[k].file_path = fs[calls'[1]].path
          => result' = result.files[k]

----------------------------------------------------------------------------
(* C15, as stated: the traversal used by the function and class extraction *)
(* visits every node exactly once in pre-order (a node before its          *)
(* children, the whole subtree of a node before its following sibling),    *)
(* and functions and classes list the definitions in that order, so a      *)
(* method of a class defined earlier in the file precedes a top-level      *)
(* function defined after that class.                                      *)

\* the nodes the records of a sequence are of, in the order of the records
NamesOf(records) == [k \in DOMAIN records |-> records[k].name]

\* the sequence ns holds every node of t of one of the kinds exactly once
ListsOnce(t, ns, kinds) ==
    /\ \A j \in DOMAIN t :
          t[j].kind \in kinds
          => Cardinality({k \in DOMAIN ns : ns[k] = j}) = 1
    /\ \A k \in DOMAIN ns : t[ns[k]].kind \in kinds

\* the nodes of t are numbered in pre-order
InPreOrder(ns) == \A k, l \in DOMAIN ns : k < l => ns[k] < ns[l]

C15_PreOrder ==
    \A a \in Analyses :
        LET t == TreeOf(a)
        IN  /\ ListsOnce(t, NamesOf(a.functions), {"FunctionDef"})
            /\ ListsOnce(t, NamesOf(a.classes), {"ClassDef"})
            /\ InPreOrder(NamesOf(a.functions))
            /\ InPreOrder(NamesOf(a.classes))

(* C15, amended: the traversal visits every node exactly once breadth      *)
(* first (a node before its children, every node of one depth before any   *)
(* deeper node, the nodes of one depth in the order of the source), and    *)
(* functions and classes list the definitions in that order, so a          *)
(* top-level function precedes the methods of every class, also of a class *)
(* defined before it.                                                      *)

InLevelOrder(t, ns) ==
    \A k, l \in DOMAIN ns :
        k < l => \/ t[ns[k]].depth < t[ns[l]].depth
                 \/ /\ t[ns[k]].depth = t[ns[l]].depth
                    /\ ns[k] < ns[l]

C15_LevelOrder ==
    \A a \in Analyses :
        LET t == TreeOf(a)
        IN  /\ ListsOnce(t, NamesOf(a.functions), {"FunctionDef"})
            /\ ListsOnce(t, NamesOf(a.classes), {"ClassDef"})
            /\ InLevelOrder(t, NamesOf(a.functions))
            /\ InLevelOrder(t, NamesOf(a.classes))

\* a method of a class, listed after a top-level function defined after the
\* class
C15_Witness ==
    /\ FileReturned
    /\ ~IsError(result)
    /\ \E k, l \in DOMAIN result.functions :
          LET t == TreeOf(result)
              f == result.functions[k].name
              g == result.functions[l].name
          IN  /\ k < l
              /\ g < f
              /\ t[f].depth = 1
              /\ t[Parent(t, g)].kind = "ClassDef"

----------------------------------------------------------------------------
(* C14: main returns exit code 1 and generates no report when the target   *)
(* does not exist, when it is a file whose suffix is not .py, or when the  *)
(* analysis result carries an error; in every other case (an existing .py  *)
(* file or a directory whose analysis carries no error) it generates       *)
(* exactly one report, in the chosen format, and returns 0.                *)

MainReturned == lastop = "main"

====
